---- MODULE Spec2Model ----
(***************************************************************************)
(* Session transport engine of the remote-support agent.                   *)
(*                                                                         *)
(* Two engines share one structure: RemoteSupportClient (src/client.py,    *)
(* engine = "console") and NetworkClient (src/winclient/client_windows.py, *)
(* engine = "gui").  The supervisor coroutine (run / _connect_loop), the   *)
(* frame-sending task (_send_frames) and the message-receiving task        *)
(* (_receive_messages) are modelled as three program counters over the     *)
(* shared object fields.  The relay, the capture pipeline, the injection   *)
(* provider and the signal handler are the environment.                    *)
(***************************************************************************)
EXTENDS Integers, Sequences, FiniteSets, TLC

VARIABLES
    engine,              \* which client class runs: "console" | "gui"
    supState,            \* position of run() / _connect_loop()
    running,             \* self.running
    connected,           \* self.connected (console engine only)
    operator_connected,  \* self.operator_connected
    session_id,          \* self.session_id
    pin,                 \* self.pin
    ws,                  \* the transport of the current connection
    sendPc,              \* position of the _send_frames task
    sendErr,             \* the exception _send_frames caught before its break
    recvPc,              \* position of the _receive_messages task
    recvExc,             \* the exception the _receive_messages task ended with
    inbox,               \* arrival numbers of the messages buffered in ws
    nArrived,            \* messages the relay sent on this connection
    msg,                 \* the message _receive_messages holds (local raw/msg)
    processed,           \* arrival numbers, in the order processing began
    effects,             \* arrival numbers, in the order their effect was applied
    inflight,            \* frames captured (or being captured) and not yet written
    framesWritten,       \* frames written on this connection (counted up to MaxFrames)
    handled,             \* what InputHandler.handle did with the last message
    stopped,             \* stop() has been called
    cdProcessed,         \* a client_disconnected message reached line 300
    framesAfterDisc,     \* frames written since operator_disconnected was processed
                         \* with no operator_connected since (-1: not in that case)
    registeredSeen,      \* line 273 ran on this connection (a full `registered`)
    outbox,              \* the text messages written on this connection
    reported,            \* a failure was printed / passed to on_status this attempt
    delay,               \* the argument of the pending asyncio.sleep of run()
    failures,            \* consecutive failed connect attempts (up to MaxFails)
    calc                 \* the last call of a pure helper: its arguments and result

vars == <<engine, supState, running, connected, operator_connected, session_id,
          pin, ws, sendPc, sendErr, recvPc, recvExc, inbox, nArrived, msg,
          processed, effects, inflight, framesWritten, handled, stopped,
          cdProcessed, framesAfterDisc, registeredSeen, outbox, reported, delay,
          failures, calc>>

\* Messages the relay may send on one connection before the model stops it.
MaxMsgs == 3

\* framesWritten counts to MaxFrames and then stays there ("MaxFrames or more").
MaxFrames == 2

\* framesAfterDisc counts to MaxStale and then stays there.
MaxStale == 2

\* failures counts to MaxFails and then stays there ("MaxFails or more").
MaxFails == 2

None == "None"

\* `await asyncio.sleep(3)` of run() / _connect_loop().
ReconnectDelay == 3

\* Mutant of BackoffDelay: the wait grows with the number of failures.
BackoffDelayGrowing(n) == ReconnectDelay * (n + 1)

\* The wait before the next attempt after n consecutive failed attempts: the
\* literal of the sleep call, whatever n is.
BackoffDelay(n) == ReconnectDelay

\* capturer.width x capturer.height of the session model's primary monitor.
PrimaryScreen == [width |-> 1920, height |-> 1080]

\* The outbound text messages.
ClientRegister == [type |-> "client_register"]
ScreenInfo(scr) == [type |-> "screen_info", width |-> scr.width, height |-> scr.height]

\* No pure helper has been called.
NoCalc == [fn |-> "none"]

(***************************************************************************)
(* Exceptions.  `except Exception` catches every class below; the          *)
(* BaseException-only classes are not caught by it.                        *)
(***************************************************************************)
ConnectionClosedClasses == {"ConnectionClosedOK", "ConnectionClosedError"}

ExceptionClasses ==
    ConnectionClosedClasses \cup
    {"ConnectionRefusedError", "TimeoutError", "InvalidHandshake",
     "AttributeError", "KeyError", "TypeError", "PyAutoGUIException",
     "CaptureError"}

\* The ways a websockets.connect() attempt fails.
ConnectFailures == {"ConnectionRefusedError", "TimeoutError", "InvalidHandshake"}

(***************************************************************************)
(* Inbound messages.  wire: bytes or text; json: what json.loads makes of  *)
(* the text; type: msg.get("type"); fields: the other keys present;        *)
(* wellTyped: whether the values have the types the handlers compute with. *)
(***************************************************************************)
Msg(w, j, t, f, ok) ==
    [wire |-> w, json |-> j, type |-> t, fields |-> f, wellTyped |-> ok]

NoMsg == Msg("none", "none", None, {}, TRUE)

Obj(t, f, ok) == Msg("text", "object", t, f, ok)

InputTypes == {"mouse_move", "mouse_click", "mouse_double_click",
               "mouse_scroll", "key_press", "key_combo"}

MouseTypes == {"mouse_move", "mouse_click", "mouse_double_click", "mouse_scroll"}

Messages ==
    { Msg("bytes", "none", None, {}, TRUE),
      Msg("text", "invalid", None, {}, TRUE),
      Msg("text", "array", None, {}, TRUE),
      Obj("registered", {"sessionId", "pin"}, TRUE),
      Obj("registered", {"pin"}, TRUE),
      Obj("registered", {"sessionId"}, TRUE),
      Obj("operator_connected", {}, TRUE),
      Obj("operator_disconnected", {}, TRUE),
      Obj("mouse_click", {"x", "y", "button"}, TRUE),
      Obj("mouse_move", {"y"}, TRUE),
      Obj("mouse_scroll", {"x", "y", "delta"}, FALSE),
      Obj("key_press", {"key"}, FALSE),
      Obj("key_combo", {"keys"}, TRUE),
      Obj("client_disconnected", {}, TRUE),
      Obj("bogus", {}, TRUE),
      Obj(None, {"x"}, TRUE) }

\* The identity the relay assigns in a `registered` message.
RelaySessionId == "s1"
RelayPin == "482913"

\* Outcomes of the injection provider (pyautogui) on one call.
ProviderFaults == {"none", "PyAutoGUIException"}

(***************************************************************************)
(* InputHandler.handle                                                     *)
(***************************************************************************)
\* The exception the body of handle's try block raises for message m when
\* the injection provider answers with `fault` ("none": no exception).
HandleBody(m, fault) ==
    IF m.type \in MouseTypes
    THEN IF ~({"x", "y"} \subseteq m.fields) THEN "KeyError"      \* msg["x"], msg["y"]
         ELSE IF ~m.wellTyped THEN "TypeError"                    \* x_ratio * screen_width
         ELSE fault
    ELSE IF m.type \in {"key_press", "key_combo"}
    THEN IF ~m.wellTyped THEN "TypeError"                         \* len(key), for k in keys
         ELSE fault
    ELSE "none"

\* Mutant of HandleCatches: the dispatch boundary catches lookup errors only.
HandleCatchesKeyErrorOnly(exc) == exc = "KeyError"

\* `except Exception as e` of handle.
HandleCatches(exc) == exc \in ExceptionClasses

\* What handle(m) does: "injected" (the provider acted), "logged" (an
\* exception was caught and printed) or the exception that leaves handle.
Handle(m, fault) ==
    LET e == HandleBody(m, fault)
    IN  IF e = "none" THEN "injected"
        ELSE IF HandleCatches(e) THEN "logged"
        ELSE e

(***************************************************************************)
(* One iteration of the `async for raw in self.ws` body.                   *)
(***************************************************************************)
\* Mutant of RunningAfter: the terminal branch breaks without clearing the flag.
RunningAfterKeepsFlag(t, eng, run) == run

\* self.running after the branch for type t ran (client.py line 300; the gui
\* engine has no client_disconnected branch).
RunningAfter(t, eng, run) ==
    IF t = "client_disconnected" /\ eng = "console" THEN FALSE ELSE run

\* Mutant of Ignored: a message no branch handles clears operator_connected.
IgnoredDropsOperator(k) == [k EXCEPT !.op = FALSE]

\* A message no branch handles (`continue` for bytes, the end of the if/elif
\* chain otherwise): the iteration ends with the fields as they were.
Ignored(k) == k

\* Mutant of PresenceAfterDisconnect: the branch leaves the flag as it was.
PresenceAfterDisconnectKept(op) == op

\* `self.operator_connected = False` of the operator_disconnected branch.
PresenceAfterDisconnect(op) == FALSE

\* Mutant of InputBranch: input is dispatched only while an operator is present.
InputBranchWhenPresent(t, op) == t \in InputTypes /\ op

\* `elif t in ("mouse_move", ..., "key_combo"):` the test names the type only;
\* operator_connected (op) is not read.
InputBranch(t, op) == t \in InputTypes

\* The result of processing message m: where the task goes (pc), the exception
\* it ends with (exc), the fields after it, and whether an input action was
\* injected or a Session field assigned (effect).
Process(m, fault, eng, sid, p, op, run) ==
    LET keep == [pc |-> "wait", exc |-> "none", sid |-> sid, pin |-> p,
                 op |-> op, run |-> run, effect |-> FALSE, terminal |-> FALSE,
                 handled |-> "none"]
    IN  IF m.wire = "bytes" THEN Ignored(keep)              \* isinstance(raw, bytes)
        ELSE IF m.json = "invalid" THEN keep                \* json.JSONDecodeError
        ELSE IF m.json # "object"                           \* msg.get on a non-dict
        THEN [keep EXCEPT !.pc = "raised", !.exc = "AttributeError"]
        ELSE IF m.type = "registered"
        THEN IF "sessionId" \notin m.fields
             THEN [keep EXCEPT !.pc = "raised", !.exc = "KeyError"]
             ELSE IF "pin" \notin m.fields
             THEN [keep EXCEPT !.pc = "raised", !.exc = "KeyError",
                               !.sid = RelaySessionId, !.effect = TRUE]
             ELSE [keep EXCEPT !.pc = "send_info", !.sid = RelaySessionId,
                               !.pin = RelayPin, !.effect = TRUE]
        ELSE IF m.type = "operator_connected"
        THEN [keep EXCEPT !.op = TRUE, !.effect = TRUE]
        ELSE IF m.type = "operator_disconnected"
        THEN [keep EXCEPT !.op = PresenceAfterDisconnect(op), !.effect = TRUE]
        ELSE IF InputBranch(m.type, op)
        THEN LET h == Handle(m, fault)
             IN  IF h = "injected" THEN [keep EXCEPT !.effect = TRUE, !.handled = h]
                 ELSE IF h = "logged" THEN [keep EXCEPT !.handled = h]
                 ELSE [keep EXCEPT !.pc = "raised", !.exc = h, !.handled = h]
        ELSE IF m.type = "client_disconnected" /\ eng = "console"
        THEN [keep EXCEPT !.pc = "done", !.terminal = TRUE,
                          !.run = RunningAfter(m.type, eng, run)]
        ELSE Ignored(keep)

\* Mutant of NextMessage: any buffered message may be delivered next.
NextMessageAny(q) == DOMAIN q

\* Positions of the buffer the iterator may yield next: the oldest message.
NextMessage(q) == IF q = <<>> THEN {} ELSE {1}

Remove(q, i) == [j \in 1..(Len(q) - 1) |-> IF j < i THEN q[j] ELSE q[j + 1]]

(***************************************************************************)
(* Initial state: the object after __init__, run() about to test its loop  *)
(* condition for the first time.                                           *)
(***************************************************************************)
Init ==
    /\ engine \in {"console", "gui"}
    /\ supState = "LoopTop"
    /\ running = TRUE
    /\ connected = FALSE
    /\ operator_connected = FALSE
    /\ session_id = None
    /\ pin = None
    /\ ws = "none"
    /\ sendPc = "none"
    /\ sendErr = "none"
    /\ recvPc = "none"
    /\ recvExc = "none"
    /\ inbox = <<>>
    /\ nArrived = 0
    /\ msg = NoMsg
    /\ processed = <<>>
    /\ effects = <<>>
    /\ inflight = 0
    /\ framesWritten = 0
    /\ handled = "none"
    /\ stopped = FALSE
    /\ cdProcessed = FALSE
    /\ framesAfterDisc = -1
    /\ registeredSeen = FALSE
    /\ outbox = <<>>
    /\ reported = FALSE
    /\ delay = 0
    /\ failures = 0
    /\ calc = NoCalc

sessionVars == <<session_id, pin>>
taskVars == <<sendPc, sendErr, recvPc, recvExc, inflight, framesWritten>>
connVars == <<inbox, nArrived, msg, processed, effects, handled>>
ghostVars == <<stopped, cdProcessed, framesAfterDisc>>
regVars == <<registeredSeen, outbox>>
retryVars == <<reported, delay, failures>>

(***************************************************************************)
(* The supervisor: run() of RemoteSupportClient, _connect_loop() of        *)
(* NetworkClient.                                                          *)
(***************************************************************************)
\* Mutant of RunCatches: only the first except clause is present.
RunCatchesClosedOnly(exc) == exc \in ConnectionClosedClasses

\* The three except clauses after the `async with` block.
RunCatches(exc) ==
    \/ exc \in ConnectionClosedClasses
    \/ exc = "ConnectionRefusedError"
    \/ exc \in ExceptionClasses

\* `while self.running:`
LoopCheck ==
    /\ supState = "LoopTop"
    /\ supState' = IF running THEN "Connecting" ELSE "Returned"
    /\ reported' = FALSE
    /\ UNCHANGED <<engine, running, connected, operator_connected, sessionVars,
                   ws, taskVars, connVars, ghostVars,
                   regVars, delay, failures, calc>>

\* websockets.connect() succeeded: self.ws = ws; self.connected = True.
ConnectOK ==
    /\ supState = "Connecting"
    /\ ws' = "open"
    /\ connected' = (engine = "console")
    /\ supState' = "Registering"
    /\ failures' = 0
    /\ UNCHANGED <<engine, running, operator_connected, sessionVars, taskVars,
                   connVars, ghostVars,
                   regVars, reported, delay, calc>>

\* Mutant of PresenceAfterTry: the flag keeps the value the session left.
PresenceAfterTryKept(op) == op

\* `self.operator_connected = False` after the try block.
PresenceAfterTry(op) == FALSE

\* The statements after the try block, reached after a caught exception or
\* after the `async with` block was left: flags cleared, then the fixed wait
\* unless the flag is already false.  An exception no clause catches leaves run().
AfterTry(exc) ==
    IF exc = "none" \/ RunCatches(exc)
    THEN /\ reported' = (reported \/ exc # "none")      \* the print of the clause
         /\ connected' = FALSE
         /\ operator_connected' = PresenceAfterTry(operator_connected)
         /\ supState' = IF running THEN "Backoff" ELSE "LoopTop"
         /\ delay' = IF running THEN BackoffDelay(failures') ELSE 0
    ELSE /\ supState' = "Crashed"
         /\ UNCHANGED <<connected, operator_connected, reported, delay>>

\* websockets.connect() raised.
ConnectFail(exc) ==
    /\ supState = "Connecting"
    /\ failures' = IF failures < MaxFails THEN failures + 1 ELSE failures
    /\ AfterTry(exc)
    /\ UNCHANGED <<engine, running, sessionVars, ws, taskVars, connVars, ghostVars,
                   regVars, calc>>

\* _register() sent client_register; _main_loop() created both tasks.
RegisterOK ==
    /\ supState = "Registering"
    /\ ws = "open"
    /\ supState' = "Streaming"
    /\ sendPc' = "loop"
    /\ recvPc' = "wait"
    /\ outbox' = Append(outbox, ClientRegister)
    /\ UNCHANGED <<engine, running, connected, operator_connected, sessionVars,
                   ws, sendErr, recvExc, inflight, framesWritten, connVars, ghostVars,
                   registeredSeen, retryVars, calc>>

\* The relay closed before client_register was written: ws.send raises.
RegisterFail ==
    /\ supState = "Registering"
    /\ ws # "open"
    /\ failures' = failures
    /\ AfterTry(IF ws = "closed_ok" THEN "ConnectionClosedOK" ELSE "ConnectionClosedError")
    /\ ws' = "none"
    /\ inbox' = <<>>
    /\ nArrived' = 0
    /\ UNCHANGED <<engine, running, sessionVars, taskVars, msg, processed,
                   effects, handled, ghostVars,
                   regVars, calc>>

\* asyncio.gather raised the exception of a task: both tasks are cancelled.
MainLoopExcept ==
    /\ supState = "Streaming"
    /\ recvPc = "raised"
    /\ sendPc' = IF sendPc = "done" THEN "done" ELSE "cancelled"
    /\ inflight' = 0
    /\ UNCHANGED framesWritten
    /\ supState' = "Closing"
    /\ UNCHANGED <<engine, running, connected, operator_connected, sessionVars,
                   ws, sendErr, recvPc, recvExc, connVars, ghostVars,
                   regVars, retryVars, calc>>

\* asyncio.gather returned: both tasks ended without an exception.
MainLoopDone ==
    /\ supState = "Streaming"
    /\ sendPc = "done"
    /\ recvPc = "done"
    /\ supState' = "Closing"
    /\ UNCHANGED <<engine, running, connected, operator_connected, sessionVars,
                   ws, taskVars, connVars, ghostVars,
                   regVars, retryVars, calc>>

\* The `async with` block closed the transport; no exception is pending.
CloseDone ==
    /\ supState = "Closing"
    /\ failures' = failures
    /\ AfterTry("none")
    /\ ws' = "none"
    /\ sendPc' = "none"
    /\ sendErr' = "none"
    /\ recvPc' = "none"
    /\ recvExc' = "none"
    /\ inflight' = 0
    /\ framesWritten' = 0
    /\ inbox' = <<>>
    /\ nArrived' = 0
    /\ msg' = NoMsg
    /\ processed' = <<>>
    /\ effects' = <<>>
    /\ handled' = "none"
    /\ registeredSeen' = FALSE
    /\ outbox' = <<>>
    /\ framesAfterDisc' = -1
    /\ UNCHANGED <<engine, running, sessionVars, stopped, cdProcessed,
                   calc>>

\* `await asyncio.sleep(3)` returned.
BackoffDone ==
    /\ supState = "Backoff"
    /\ supState' = "LoopTop"
    /\ delay' = 0
    /\ UNCHANGED <<engine, running, connected, operator_connected, sessionVars,
                   ws, taskVars, connVars, ghostVars,
                   regVars, reported, failures, calc>>

\* stop(), called by the signal handler (or the window's close handler).
Stop ==
    /\ ~stopped
    /\ supState \notin {"Returned", "Crashed"}
    /\ running' = FALSE
    /\ stopped' = TRUE
    /\ UNCHANGED <<engine, supState, connected, operator_connected, sessionVars,
                   ws, taskVars, connVars, cdProcessed, framesAfterDisc,
                   regVars, retryVars, calc>>

(***************************************************************************)
(* The relay.                                                              *)
(***************************************************************************)
RelaySend ==
    /\ ws = "open"
    /\ nArrived < MaxMsgs
    /\ nArrived' = nArrived + 1
    /\ inbox' = Append(inbox, nArrived + 1)
    /\ UNCHANGED <<engine, supState, running, connected, operator_connected,
                   sessionVars, ws, taskVars, msg, processed, effects, handled,
                   ghostVars,
                   regVars, retryVars, calc>>

\* The connection ends: a close frame with code 1000/1001 ("closed_ok"), or
\* any other end, a lost link or a keep-alive timeout included ("closed_err").
RelayClose(how) ==
    /\ ws = "open"
    /\ ws' = how
    /\ UNCHANGED <<engine, supState, running, connected, operator_connected,
                   sessionVars, taskVars, connVars, ghostVars,
                   regVars, retryVars, calc>>

(***************************************************************************)
(* The frame-sending task: _send_frames.                                   *)
(***************************************************************************)
\* `while self.running and self.connected:` (the gui engine tests running only).
LoopCond == running /\ (engine = "console" => connected)

\* Mutant of MayCapture: the next capture starts while the write is pending.
MayCaptureDuringWrite(pc) == pc \in {"loop", "sending"}

\* The positions from which the task calls the capture pipeline: the top of
\* the loop, which it reaches only after `await self.ws.send(frame)` and the
\* pacing sleep returned.
MayCapture(pc) == pc = "loop"

\* `if self.running: print(f"[!] Frame send error: {e}")` of the console
\* engine; the gui engine's clause is `except Exception: break`.
SendFailureLogged(eng, run) == eng = "console" /\ run

SendExit ==
    /\ sendPc = "loop"
    /\ ~LoopCond
    /\ sendPc' = "done"
    /\ UNCHANGED <<engine, supState, running, connected, operator_connected,
                   sessionVars, ws, sendErr, recvPc, recvExc, inflight, framesWritten, connVars,
                   ghostVars,
                   regVars, retryVars, calc>>

\* Mutant of CaptureBranch: the capture branch is taken whatever the flag is.
CaptureBranchAlways(op) == TRUE

\* `if self.operator_connected:` of the loop body.
CaptureBranch(op) == op

\* operator_connected read as true: asyncio.to_thread(self.capturer.capture).
SendCapture ==
    /\ MayCapture(sendPc)
    /\ LoopCond
    /\ CaptureBranch(operator_connected)
    /\ sendPc' = "capturing"
    /\ inflight' = inflight + 1
    /\ UNCHANGED framesWritten
    /\ UNCHANGED <<engine, supState, running, connected, operator_connected,
                   sessionVars, ws, sendErr, recvPc, recvExc, connVars, ghostVars,
                   regVars, retryVars, calc>>

\* operator_connected read as false: asyncio.sleep(0.5).
SendIdle ==
    /\ sendPc = "loop"
    /\ LoopCond
    /\ ~CaptureBranch(operator_connected)
    /\ sendPc' = "idle"
    /\ UNCHANGED <<engine, supState, running, connected, operator_connected,
                   sessionVars, ws, sendErr, recvPc, recvExc, inflight, framesWritten, connVars,
                   ghostVars,
                   regVars, retryVars, calc>>

SendIdleWake ==
    /\ sendPc = "idle"
    /\ sendPc' = "loop"
    /\ UNCHANGED <<engine, supState, running, connected, operator_connected,
                   sessionVars, ws, sendErr, recvPc, recvExc, inflight, framesWritten, connVars,
                   ghostVars,
                   regVars, retryVars, calc>>

\* The capture thread returned a frame: `await self.ws.send(frame)` begins.
CaptureOK ==
    /\ sendPc = "capturing"
    /\ sendPc' = "sending"
    /\ UNCHANGED <<engine, supState, running, connected, operator_connected,
                   sessionVars, ws, sendErr, recvPc, recvExc, inflight, framesWritten, connVars,
                   ghostVars,
                   regVars, retryVars, calc>>

\* The capture or the encoder raised: caught by `except Exception`, break.
CaptureFail ==
    /\ sendPc = "capturing"
    /\ sendPc' = "done"
    /\ sendErr' = "CaptureError"
    /\ inflight' = inflight - 1
    /\ UNCHANGED framesWritten
    /\ reported' = (reported \/ SendFailureLogged(engine, running))
    /\ UNCHANGED <<engine, supState, running, connected, operator_connected,
                   sessionVars, ws, recvPc, recvExc, connVars, ghostVars,
                   regVars, delay, failures, calc>>

\* The frame was written: the pacing sleep begins.
FrameWrite ==
    /\ sendPc = "sending"
    /\ ws = "open"
    /\ sendPc' = "pacing"
    /\ inflight' = inflight - 1
    /\ framesWritten' = IF framesWritten < MaxFrames THEN framesWritten + 1 ELSE framesWritten
    /\ framesAfterDisc' = IF framesAfterDisc \in 0..(MaxStale - 1)
                          THEN framesAfterDisc + 1 ELSE framesAfterDisc
    /\ UNCHANGED <<engine, supState, running, connected, operator_connected,
                   sessionVars, ws, sendErr, recvPc, recvExc, connVars, stopped,
                   cdProcessed, regVars, retryVars, calc>>

\* ws.send on a closed connection raises ConnectionClosed: caught, break.
FrameWriteFail ==
    /\ sendPc = "sending"
    /\ ws # "open"
    /\ sendPc' = "done"
    /\ sendErr' = IF ws = "closed_ok" THEN "ConnectionClosedOK" ELSE "ConnectionClosedError"
    /\ inflight' = inflight - 1
    /\ UNCHANGED framesWritten
    /\ reported' = (reported \/ SendFailureLogged(engine, running))
    /\ UNCHANGED <<engine, supState, running, connected, operator_connected,
                   sessionVars, ws, recvPc, recvExc, connVars, ghostVars,
                   regVars, delay, failures, calc>>

PaceDone ==
    /\ sendPc = "pacing"
    /\ sendPc' = "loop"
    /\ UNCHANGED <<engine, supState, running, connected, operator_connected,
                   sessionVars, ws, sendErr, recvPc, recvExc, inflight, framesWritten, connVars,
                   ghostVars,
                   regVars, retryVars, calc>>

(***************************************************************************)
(* The message-receiving task: _receive_messages.                          *)
(***************************************************************************)
\* Mutant of MayReceive: the next message is taken while screen_info is
\* still being written.
MayReceiveDuringSend(pc) == pc \in {"wait", "send_info"}

\* The position at which the task asks the iterator for the next message.
MayReceive(pc) == pc = "wait"

\* framesAfterDisc after message m was processed: counting starts with
\* operator_disconnected and ends with operator_connected.
AfterPresenceMessage(m, n) ==
    IF m.json = "object" /\ m.type = "operator_connected" THEN -1
    ELSE IF m.json = "object" /\ m.type = "operator_disconnected" /\ n = -1 THEN 0
    ELSE n

\* The iterator yields a buffered message and the loop body runs on it, up to
\* its next await or to the end of the iteration.
RecvMsg ==
    /\ MayReceive(recvPc)
    /\ \E i \in NextMessage(inbox), m \in Messages, fault \in ProviderFaults :
          LET r == Process(m, fault, engine, session_id, pin,
                           operator_connected, running)
          IN  /\ msg' = m
              /\ inbox' = Remove(inbox, i)
              /\ processed' = Append(processed, inbox[i])
              /\ effects' = IF r.effect THEN Append(effects, inbox[i]) ELSE effects
              /\ recvPc' = r.pc
              /\ recvExc' = r.exc
              /\ session_id' = r.sid
              /\ pin' = r.pin
              /\ operator_connected' = r.op
              /\ running' = r.run
              /\ cdProcessed' = (cdProcessed \/ r.terminal)
              /\ framesAfterDisc' = AfterPresenceMessage(m, framesAfterDisc)
              /\ handled' = r.handled
              /\ registeredSeen' = (registeredSeen \/ r.pc = "send_info")
    /\ UNCHANGED <<engine, supState, connected, ws, sendPc, sendErr, inflight, framesWritten,
                   nArrived, stopped,
                   outbox, retryVars, calc>>

\* The connection was closed with an OK code and nothing is buffered: the
\* iterator ends and the coroutine returns.
RecvClosedOK ==
    /\ recvPc = "wait"
    /\ inbox = <<>>
    /\ ws = "closed_ok"
    /\ recvPc' = "done"
    /\ UNCHANGED <<engine, supState, running, connected, operator_connected,
                   sessionVars, ws, sendPc, sendErr, recvExc, inflight, framesWritten, connVars,
                   ghostVars,
                   regVars, retryVars, calc>>

\* The connection ended otherwise: the iterator raises ConnectionClosedError.
RecvClosedErr ==
    /\ recvPc = "wait"
    /\ inbox = <<>>
    /\ ws = "closed_err"
    /\ recvPc' = "raised"
    /\ recvExc' = "ConnectionClosedError"
    /\ UNCHANGED <<engine, supState, running, connected, operator_connected,
                   sessionVars, ws, sendPc, sendErr, inflight, framesWritten, connVars, ghostVars,
                   regVars, retryVars, calc>>

\* screen_info was written.
RecvSendInfo ==
    /\ recvPc = "send_info"
    /\ ws = "open"
    /\ recvPc' = "wait"
    /\ outbox' = Append(outbox, ScreenInfo(PrimaryScreen))
    /\ UNCHANGED <<engine, supState, running, connected, operator_connected,
                   sessionVars, ws, sendPc, sendErr, recvExc, inflight, framesWritten, connVars,
                   ghostVars,
                   registeredSeen, retryVars, calc>>

\* Writing screen_info on a closed connection raises ConnectionClosed.
RecvSendInfoFail ==
    /\ recvPc = "send_info"
    /\ ws # "open"
    /\ recvPc' = "raised"
    /\ recvExc' = IF ws = "closed_ok" THEN "ConnectionClosedOK" ELSE "ConnectionClosedError"
    /\ UNCHANGED <<engine, supState, running, connected, operator_connected,
                   sessionVars, ws, sendPc, sendErr, inflight, framesWritten, connVars, ghostVars,
                   regVars, retryVars, calc>>

(***************************************************************************)
(* Specifications.                                                         *)
(***************************************************************************)
ConnectFails == \E exc \in ConnectFailures : ConnectFail(exc)
RelayCloses == \E how \in {"closed_ok", "closed_err"} : RelayClose(how)

Next ==
    \/ LoopCheck
    \/ ConnectOK
    \/ ConnectFails
    \/ RegisterOK
    \/ RegisterFail
    \/ MainLoopExcept
    \/ MainLoopDone
    \/ CloseDone
    \/ BackoffDone
    \/ Stop
    \/ RelaySend
    \/ RelayCloses
    \/ SendExit
    \/ SendCapture
    \/ SendIdle
    \/ SendIdleWake
    \/ CaptureOK
    \/ CaptureFail
    \/ FrameWrite
    \/ FrameWriteFail
    \/ PaceDone
    \/ RecvMsg
    \/ RecvClosedOK
    \/ RecvClosedErr
    \/ RecvSendInfo
    \/ RecvSendInfoFail

Spec == Init /\ [][Next]_vars

\* The event loop runs every coroutine that is ready, and every await on the
\* connect call, the capture thread, a write or a sleep returns or raises.
\* Nothing obliges the relay to send or to close, nor a signal to arrive.
Fairness ==
    /\ WF_vars(LoopCheck)
    /\ WF_vars(ConnectOK \/ ConnectFails)
    /\ WF_vars(RegisterOK \/ RegisterFail)
    /\ WF_vars(MainLoopExcept)
    /\ WF_vars(MainLoopDone)
    /\ WF_vars(CloseDone)
    /\ WF_vars(BackoffDone)
    /\ WF_vars(SendExit)
    /\ WF_vars(SendCapture)
    /\ WF_vars(SendIdle)
    /\ WF_vars(SendIdleWake)
    /\ WF_vars(CaptureOK \/ CaptureFail)
    /\ WF_vars(FrameWrite \/ FrameWriteFail)
    /\ WF_vars(PaceDone)
    /\ WF_vars(RecvMsg)
    /\ WF_vars(RecvClosedOK)
    /\ WF_vars(RecvClosedErr)
    /\ WF_vars(RecvSendInfo \/ RecvSendInfoFail)

FairSpec == Spec /\ Fairness

TypeOK ==
    /\ engine \in {"console", "gui"}
    /\ supState \in {"LoopTop", "Connecting", "Registering", "Streaming",
                     "Closing", "Backoff", "Returned", "Crashed"}
    /\ running \in BOOLEAN
    /\ connected \in BOOLEAN
    /\ operator_connected \in BOOLEAN
    /\ session_id \in {None, RelaySessionId}
    /\ pin \in {None, RelayPin}
    /\ ws \in {"none", "open", "closed_ok", "closed_err"}
    /\ sendPc \in {"none", "loop", "idle", "capturing", "sending", "pacing",
                   "done", "cancelled"}
    /\ recvPc \in {"none", "wait", "send_info", "done", "raised"}
    /\ msg \in Messages \cup {NoMsg}
    /\ nArrived \in 0..MaxMsgs
    /\ inflight \in 0..1
    /\ framesWritten \in 0..MaxFrames
    /\ handled \in {"none", "injected", "logged"}
    /\ registeredSeen \in BOOLEAN
    /\ Len(outbox) <= MaxMsgs + 1
    /\ reported \in BOOLEAN
    /\ delay \in {0, ReconnectDelay}
    /\ failures \in 0..MaxFails
    /\ framesAfterDisc \in (-1)..MaxStale

(***************************************************************************)
(* Properties.                                                             *)
(***************************************************************************)
TransportClosed == ws \in {"closed_ok", "closed_err"}
SendAlive == sendPc \in {"loop", "idle", "capturing", "sending", "pacing"}
RecvAlive == recvPc \in {"wait", "send_info"}
ProcessedOne == Len(processed') = Len(processed) + 1

\* C1: after any transport failure during Streaming (clean or abnormal close,
\* operator present or not) the console supervisor eventually reaches Backoff,
\* and from Backoff eventually attempts to connect again, as long as the
\* keep-running flag is true.
C1_ReconnectAfterTransportFailure ==
    /\ (engine = "console" /\ supState = "Streaming" /\ TransportClosed)
          ~> (supState = "Backoff" \/ ~running)
    /\ (engine = "console" /\ supState = "Backoff")
          ~> (supState = "Connecting" \/ ~running)

\* C2: in the console engine, once client_disconnected has been processed the
\* receive loop has ended without an exception, no connection attempt, no
\* registration and no backoff wait ever follows, and run() eventually returns.
C2_DisconnectIsTerminal ==
    /\ [][(cdProcessed' /\ ~cdProcessed) => (recvPc' = "done" /\ recvExc' = "none")]_vars
    /\ [](cdProcessed => supState \notin {"Connecting", "Registering", "Backoff", "Crashed"})
    /\ (cdProcessed ~> supState = "Returned")

C2_Witness ==
    cdProcessed /\ ~stopped /\ supState = "Returned" /\ engine = "console"

\* C3: a stop request issued in any supervisor state eventually makes run()
\* return, with both tasks ended and the transport closed.
C3_StopReturns ==
    stopped ~> (supState = "Returned" /\ ~SendAlive /\ ~RecvAlive /\ ws = "none")

\* C4: run() never raises, and in every state where it has returned the
\* keep-running flag is false and was cleared by stop() or by a processed
\* client_disconnected.
C4_OnlyExplicitTermination ==
    /\ supState # "Crashed"
    /\ supState = "Returned" => (~running /\ (stopped \/ cdProcessed))

C4_Witness ==
    supState = "Returned" /\ stopped /\ ~cdProcessed /\ session_id = RelaySessionId

\* C5: once the frame-sending task has ended on a capture or write failure the
\* session does not continue: the receiver processes no further message of it.
C5_StreamerFailureEndsSession ==
    [][(supState = "Streaming" /\ sendPc = "done" /\ sendErr # "none") => ~ProcessedOne]_vars

\* C6: at every moment at most one frame is captured (or being captured) and
\* not yet written.
C6_OneFrameInFlight == inflight <= 1

C6_Witness ==
    sendPc = "capturing" /\ inflight = 1 /\ framesWritten >= 1 /\ recvPc = "send_info"

\* A text message that is not a well-formed record of its type.
Malformed(m) ==
    /\ m.wire = "text"
    /\ \/ m.json # "object"
       \/ m.type = "registered" /\ ~({"sessionId", "pin"} \subseteq m.fields)
       \/ m.type \in MouseTypes /\ ~({"x", "y"} \subseteq m.fields)

\* C7: every malformed inbound text message (undecodable text, JSON that is not
\* a record, a record lacking the fields its type requires) is dropped: the
\* receiver waits for the next message, the supervisor stays in Streaming and
\* the Session fields keep their values.
C7_MalformedDropped ==
    [][(ProcessedOne /\ Malformed(msg')) =>
          /\ recvPc' = "wait"
          /\ supState' = "Streaming"
          /\ session_id' = session_id
          /\ pin' = pin
          /\ operator_connected' = operator_connected]_vars

\* C8: an exception raised while translating or performing an input event is
\* caught inside handle: the receiver does not end, it waits for the next
\* message, and the supervisor stays in Streaming.
C8_InputFaultsContained ==
    [][(ProcessedOne /\ handled' \notin {"none", "injected"}) =>
          /\ handled' = "logged"
          /\ recvPc' = "wait"
          /\ recvExc' = "none"
          /\ supState' = "Streaming"]_vars

C8_Witness ==
    /\ handled = "logged"
    /\ msg.type = "key_press"
    /\ recvPc = "wait"
    /\ supState = "Streaming"
    /\ Len(processed) >= 2

InArrivalOrder(s) == \A i \in 1..Len(s) : s[i] = i
Increasing(s) == \A i, j \in 1..Len(s) : i < j => s[i] < s[j]

\* C9: messages are processed in arrival order, none skipped or repeated; the
\* effects (injected input actions, Session updates) are applied in arrival
\* order; and processing of a message begins only when the receiver is idle.
C9_ArrivalOrder ==
    /\ [](InArrivalOrder(processed) /\ Increasing(effects)
          /\ \A i \in 1..Len(effects) : effects[i] <= Len(processed))
    /\ [][ProcessedOne => (recvPc = "wait" /\ processed' = Append(processed, Head(inbox)))]_vars

C9_Witness ==
    /\ Len(processed) >= 3
    /\ Len(effects) >= 2
    /\ sendPc = "sending"
    /\ recvPc = "send_info"

\* C10: while an operator is present on an open connection and the agent has
\* not been told to stop, a frame is eventually written.
C10_FramesFlowWhileOperatorPresent ==
    (supState = "Streaming" /\ operator_connected /\ ws = "open" /\ running)
       ~> (sendPc = "pacing" \/ ~operator_connected \/ ws # "open" \/ ~running)

\* C11: the supervisor is in Streaming (both tasks started) only on a
\* connection on which `registered` has been received, and no frame is written
\* on a connection before its `registered` message.
C11_StreamingAfterRegistered ==
    /\ supState = "Streaming" => registeredSeen
    /\ framesWritten > 0 => registeredSeen

\* C12: whenever the supervisor waits before a retry, the failure that ended
\* the connection attempt or the streaming session has been printed or passed
\* to the status callback: no failure leading to a reconnect is silent.
C12_FailuresReported ==
    supState = "Backoff" => reported

(***************************************************************************)
(* The pure helpers of InputHandler and ScreenCapturer.  A ratio is the    *)
(* rational k / RatioDen, given by its numerator k; products are exact.    *)
(***************************************************************************)
\* Ratios are multiples of 1 / RatioDen.
RatioDen == 10

\* Numerators of the ratios in [0, 1], and of all the ratios tried ([-1, 2]).
UnitNums == 0..RatioDen
RatioNums == (-RatioDen)..(2 * RatioDen)

\* Monitor geometries.
Screens == {PrimaryScreen,
            [width |-> 1366, height |-> 768],
            [width |-> 1080, height |-> 1920]}

\* int(a / b) for b > 0: the fraction is dropped, towards zero.
Trunc(a, b) == IF a >= 0 THEN a \div b ELSE -((-a) \div b)

\* Mutant of scale_coords: each ratio is applied to the other dimension.
scale_coords_swapped(scr, xn, yn) ==
    <<Trunc(xn * scr.height, RatioDen), Trunc(yn * scr.width, RatioDen)>>

\* Mutant of scale_coords: floor division, which differs below zero.
scale_coords_floor(scr, xn, yn) ==
    <<(xn * scr.width) \div RatioDen, (yn * scr.height) \div RatioDen>>

\* InputHandler._scale_coords (InputHandler._scale in the gui engine):
\* int(x_ratio * self.screen_width), int(y_ratio * self.screen_height).
scale_coords(scr, xn, yn) ==
    <<Trunc(xn * scr.width, RatioDen), Trunc(yn * scr.height, RatioDen)>>

\* Every variable of the session machine.
machineVars == <<engine, supState, running, connected, operator_connected,
                 sessionVars, ws, taskVars, connVars, ghostVars, regVars,
                 retryVars>>

\* A mouse event is translated on a handler built for monitor scr.
ScaleCall ==
    /\ calc = NoCalc
    /\ \E scr \in Screens, xn \in RatioNums, yn \in RatioNums :
          calc' = [fn |-> "scale_coords", screen |-> scr, x |-> xn, y |-> yn,
                   out |-> scale_coords(scr, xn, yn)]
    /\ UNCHANGED machineVars

\* InputHandler.KEY_MAP, as (JS key name, pyautogui key name) pairs.
KEY_MAP ==
    {<<"Enter", "enter">>, <<"Backspace", "backspace">>, <<"Tab", "tab">>,
     <<"Escape", "escape">>, <<"Delete", "delete">>, <<"Insert", "insert">>,
     <<"Home", "home">>, <<"End", "end">>, <<"PageUp", "pageup">>,
     <<"PageDown", "pagedown">>, <<"ArrowUp", "up">>, <<"ArrowDown", "down">>,
     <<"ArrowLeft", "left">>, <<"ArrowRight", "right">>, <<"Control", "ctrl">>,
     <<"Shift", "shift">>, <<"Alt", "alt">>, <<"Meta", "win">>,
     <<"CapsLock", "capslock">>, <<"NumLock", "numlock">>,
     <<"ScrollLock", "scrolllock">>, <<"F1", "f1">>, <<"F2", "f2">>,
     <<"F3", "f3">>, <<"F4", "f4">>, <<"F5", "f5">>, <<"F6", "f6">>,
     <<"F7", "f7">>, <<"F8", "f8">>, <<"F9", "f9">>, <<"F10", "f10">>,
     <<"F11", "f11">>, <<"F12", "f12">>, <<" ", "space">>}

\* The key names tried: table entries, one-character names in both cases, and
\* longer names the table does not hold.
KeyNames == {"Control", "Shift", "Meta", "ArrowUp", " ", "a", "A", "Z", "1",
             "AltGraph"}

\* len(k) == 1
OneChar(k) == k \in {" ", "a", "A", "Z", "z", "1"}

\* k.lower() of a one-character name
Lower(k) == IF k = "A" THEN "a" ELSE IF k = "Z" THEN "z" ELSE k

\* self.KEY_MAP.get(k, k.lower() if len(k) == 1 else k)
map_key(k) ==
    IF \E p \in KEY_MAP : p[1] = k
    THEN (CHOOSE p \in KEY_MAP : p[1] = k)[2]
    ELSE IF OneChar(k) THEN Lower(k) ELSE k

\* A call of the injection provider.
Call(f, a) == [call |-> f, args |-> a]

\* Mutant of key_combo: one press per key instead of one chord.
key_combo_press_each(keys) ==
    [i \in 1..Len(keys) |-> Call("press", <<map_key(keys[i])>>)]

\* InputHandler._key_combo: the provider calls it makes for msg["keys"].
key_combo(keys) ==
    <<Call("hotkey", [i \in 1..Len(keys) |-> map_key(keys[i])])>>

\* Keys of one key_combo event in the enumeration.
MaxKeys == 3

KeyLists == UNION {[1..n -> KeyNames] : n \in 0..MaxKeys}

\* A key_combo event is translated.
KeyComboCall ==
    /\ calc = NoCalc
    /\ \E keys \in KeyLists :
          calc' = [fn |-> "key_combo", keys |-> keys, out |-> key_combo(keys)]
    /\ UNCHANGED machineVars

\* MAX_DIMENSION of client.py (ScreenCapturer.MAX_DIM of the gui engine).
MAX_DIMENSION == 1920

\* Values of max_dim: the default and a smaller constructor argument.
MaxDims == {MAX_DIMENSION, 1280}

\* Widths and heights of the captured image.
Dims == {768, 1080, 1200, 1440, 1920, 1921, 2148, 2160, 2560, 3840}

\* Mutant of ResizeRatio: the larger of the two ratios.
ResizeRatioMax(w, h, md) == IF md * h <= md * w THEN <<md, h>> ELSE <<md, w>>

\* ratio = min(max_dim / w, max_dim / h), as numerator and denominator:
\* max_dim / w is the smaller one exactly when h <= w.
ResizeRatio(w, h, md) == IF md * h <= md * w THEN <<md, w>> ELSE <<md, h>>

\* int(a * ratio) in double arithmetic: the exact floor, except that a
\* product which is a whole number exactly may be computed just below it
\* (int(2148 * (1920 / 2148)) is 1919).  u is that undershoot, 0 or 1.
Undershoots(a, r) == IF (a * r[1]) % r[2] = 0 THEN {0, 1} ELSE {0}

\* Whether capture() resizes an image of w x h.
Resizes(w, h, md) == w > md \/ h > md

\* The size of the image capture() encodes.
capture_size(w, h, md, ux, uy) ==
    IF Resizes(w, h, md)
    THEN LET r == ResizeRatio(w, h, md)
         IN  <<(w * r[1]) \div r[2] - ux, (h * r[1]) \div r[2] - uy>>
    ELSE <<w, h>>

\* A frame is captured.
CaptureCall ==
    /\ calc = NoCalc
    /\ \E w \in Dims, h \in Dims, md \in MaxDims :
          \E ux \in (IF Resizes(w, h, md) THEN Undershoots(w, ResizeRatio(w, h, md)) ELSE {0}),
             uy \in (IF Resizes(w, h, md) THEN Undershoots(h, ResizeRatio(w, h, md)) ELSE {0}) :
             calc' = [fn |-> "capture", w |-> w, h |-> h, max_dim |-> md,
                      ux |-> ux, uy |-> uy,
                      out |-> capture_size(w, h, md, ux, uy)]
    /\ UNCHANGED machineVars

\* InputHandler.MOUSE_BUTTON_MAP, as (button code, pyautogui button) pairs.
MOUSE_BUTTON_MAP == {<<0, "left">>, <<1, "middle">>, <<2, "right">>}

\* msg["button"] as the message carries it: <<>> when the key is absent,
\* <<n>> for the integer code n.
Buttons == {<<>>, <<-1>>, <<0>>, <<1>>, <<2>>, <<3>>, <<7>>}

\* Mutant of button_name: the codes are taken to start at 1.
button_name_one_based(b) ==
    LET code == IF b = <<>> THEN 0 ELSE b[1]
    IN  IF \E p \in MOUSE_BUTTON_MAP : p[1] + 1 = code
        THEN (CHOOSE p \in MOUSE_BUTTON_MAP : p[1] + 1 = code)[2]
        ELSE "left"

\* self.MOUSE_BUTTON_MAP.get(msg.get("button", 0), "left")
button_name(b) ==
    LET code == IF b = <<>> THEN 0 ELSE b[1]
    IN  IF \E p \in MOUSE_BUTTON_MAP : p[1] = code
        THEN (CHOOSE p \in MOUSE_BUTTON_MAP : p[1] = code)[2]
        ELSE "left"

\* InputHandler._mouse_click / _mouse_double_click: the provider calls made
\* for a message of type t with ratios xn, yn and button b.
mouse_click(scr, t, xn, yn, b) ==
    LET c == scale_coords(scr, xn, yn)
    IN  <<Call(IF t = "mouse_click" THEN "click" ELSE "doubleClick",
               <<c[1], c[2], button_name(b)>>)>>

\* A mouse_click or mouse_double_click event is translated.
ClickCall ==
    /\ calc = NoCalc
    /\ \E scr \in Screens, t \in {"mouse_click", "mouse_double_click"},
          xn \in UnitNums, yn \in UnitNums, b \in Buttons :
          calc' = [fn |-> t, screen |-> scr, x |-> xn, y |-> yn, button |-> b,
                   out |-> mouse_click(scr, t, xn, yn, b)]
    /\ UNCHANGED machineVars

\* The call returned: its record is dropped before the next call.
HelperReturn ==
    /\ calc # NoCalc
    /\ calc' = NoCalc
    /\ UNCHANGED machineVars

\* The helpers called one after the other, in any order, on a freshly built
\* handler and capturer.
HelperInit == Init /\ engine = "console"

HelperNext ==
    \/ ScaleCall
    \/ KeyComboCall
    \/ CaptureCall
    \/ ClickCall
    \/ HelperReturn

HelperSpec == HelperInit /\ [][HelperNext]_vars

\* C13: for every screen geometry and ratios in [0, 1] x [0, 1], the scaled
\* coordinates do not decrease when a ratio grows, (1, 1) is mapped to
\* (screenWidth, screenHeight) and (0, 0) to (0, 0).
C13_ScaleMonotonic ==
    (calc.fn = "scale_coords" /\ calc.x \in UnitNums /\ calc.y \in UnitNums) =>
       /\ \A x2 \in UnitNums :
             calc.x <= x2 => calc.out[1] <= scale_coords(calc.screen, x2, calc.y)[1]
       /\ \A y2 \in UnitNums :
             calc.y <= y2 => calc.out[2] <= scale_coords(calc.screen, calc.x, y2)[2]
       /\ (calc.x = RatioDen /\ calc.y = RatioDen) =>
             calc.out = <<calc.screen.width, calc.screen.height>>
       /\ (calc.x = 0 /\ calc.y = 0) => calc.out = <<0, 0>>

C13_Witness ==
    /\ calc.fn = "scale_coords"
    /\ calc.x = RatioDen
    /\ calc.y = RatioDen
    /\ calc.out = <<1366, 768>>

\* C14: for every key_combo event the translated sequence has the length of
\* the keys sequence, its i-th element is the translation of the i-th key (the
\* KEY_MAP entry if there is one, else the lower-cased key if it is one
\* character, else the key unchanged), and it is submitted as exactly one
\* hotkey action; ["Control", "Shift", "a"] gives ["ctrl", "shift", "a"].
C14_KeyComboTranslation ==
    calc.fn = "key_combo" =>
       LET keys == calc.keys
           calls == calc.out
       IN  /\ Len(calls) = 1
           /\ calls[1].call = "hotkey"
           /\ Len(calls[1].args) = Len(keys)
           /\ \A i \in 1..Len(keys) :
                 LET k == keys[i]
                     t == calls[1].args[i]
                     inTable == \E p \in KEY_MAP : p[1] = k
                 IN  /\ \A p \in KEY_MAP : p[1] = k => t = p[2]
                     /\ (~inTable /\ OneChar(k)) => t = Lower(k)
                     /\ (~inTable /\ ~OneChar(k)) => t = k
           /\ keys = <<"Control", "Shift", "a">> =>
                 calls[1].args = <<"ctrl", "shift", "a">>

C14_Witness ==
    /\ calc.fn = "key_combo"
    /\ calc.keys = <<"Meta", "AltGraph", "Z">>
    /\ calc.out = <<Call("hotkey", <<"win", "AltGraph", "z">>)>>

Max(a, b) == IF a >= b THEN a ELSE b
Abs(a) == IF a >= 0 THEN a ELSE -a

\* C15: a captured frame with w > max_dim or h > max_dim is resized to
\* (floor(w * r), floor(h * r)) with r = min(max_dim / w, max_dim / h), the
\* floor being that of the product as computed (ux, uy: its undershoot of a
\* whole-number product); then max(outW, outH) <= max_dim and outW / outH is
\* w / h to within one pixel.  A frame with both dimensions <= max_dim keeps
\* its size.
C15_ResizeWithinMaxDim ==
    calc.fn = "capture" =>
       LET w == calc.w
           h == calc.h
           md == calc.max_dim
           big == Max(w, h)
           outW == calc.out[1]
           outH == calc.out[2]
       IN  IF w > md \/ h > md
           THEN /\ (outW + calc.ux) * big <= w * md
                /\ w * md < (outW + calc.ux + 1) * big
                /\ (outH + calc.uy) * big <= h * md
                /\ h * md < (outH + calc.uy + 1) * big
                /\ Max(outW, outH) <= md
                /\ Abs(outW * h - outH * w) <= big
           ELSE calc.out = <<w, h>>

C15_Witness ==
    /\ calc.fn = "capture"
    /\ calc.w = 3840
    /\ calc.h = 2148
    /\ calc.max_dim = MAX_DIMENSION
    /\ calc.out = <<1920, 1074>>

\* C16: the frame task starts a capture only from a loop iteration that read
\* operator_connected as true, and an iteration that reads it as false does
\* nothing but begin the idle wait.
C16_CaptureOnlyWithOperator ==
    /\ [][(sendPc' = "capturing" /\ sendPc # "capturing") =>
             (sendPc = "loop" /\ operator_connected)]_vars
    /\ [][(sendPc = "loop" /\ sendPc' \notin {"loop", "cancelled", "none"}
           /\ ~operator_connected) =>
             /\ sendPc' \in {"idle", "done"}
             /\ inflight' = inflight
             /\ framesWritten' = framesWritten]_vars
    /\ [](sendPc = "idle" => inflight = 0)

C16_Witness ==
    /\ sendPc = "idle"
    /\ ~operator_connected
    /\ framesWritten >= 1
    /\ ws = "open"
    /\ msg.type = "operator_disconnected"

\* C17: a failed connect attempt is reported, and is followed by a wait of
\* exactly 3 time units and then by the loop test that starts the next
\* attempt; the wait is 3 after any number of consecutive failures, and it is
\* skipped exactly when the keep-running flag is false.
C17_FixedBackoff ==
    /\ [][(supState = "Connecting" /\ supState' \notin {"Connecting", "Registering"}) =>
             /\ reported'
             /\ running => (supState' = "Backoff" /\ delay' = 3)
             /\ ~running => (supState' = "LoopTop" /\ delay' = 0)]_vars
    /\ [](supState = "Backoff" => delay = 3)
    /\ [][(supState = "Backoff" /\ supState' # "Backoff") => supState' = "LoopTop"]_vars
    /\ [][(supState = "LoopTop" /\ supState' # "LoopTop") =>
             supState' = IF running THEN "Connecting" ELSE "Returned"]_vars

C17_Witness ==
    /\ supState = "Backoff"
    /\ failures >= 2
    /\ delay = 3
    /\ reported
    /\ session_id = None

\* A `registered` record that carries both sessionId and pin.
FullRegistered(m) ==
    m.json = "object" /\ m.type = "registered" /\ {"sessionId", "pin"} \subseteq m.fields

\* C18: processing a `registered` message that carries sessionId and pin sets
\* session_id and pin to those values and leaves operator_connected alone;
\* then exactly one screen_info with the monitor's width and height is written
\* before the next inbound message is processed (unless the connection closed
\* first, which ends the receive task), and screen_info is written at no
\* other time.
C18_RegisteredStoresAndAnnounces ==
    /\ [][(ProcessedOne /\ FullRegistered(msg')) =>
             /\ session_id' = RelaySessionId
             /\ pin' = RelayPin
             /\ operator_connected' = operator_connected
             /\ recvPc' = "send_info"
             /\ outbox' = outbox]_vars
    /\ [][recvPc = "send_info" => ~ProcessedOne]_vars
    /\ [][(recvPc = "send_info" /\ recvPc' # "send_info") =>
             \/ /\ recvPc' = "wait"
                /\ outbox' = Append(outbox, [type |-> "screen_info",
                                             width |-> PrimaryScreen.width,
                                             height |-> PrimaryScreen.height])
                /\ operator_connected' = operator_connected
                /\ sessionVars' = sessionVars
             \/ /\ recvPc' = "raised"
                /\ ws # "open"
                /\ outbox' = outbox]_vars
    /\ [][(supState = "Streaming" /\ outbox' # outbox) => recvPc = "send_info"]_vars

C18_Witness ==
    /\ msg.type = "registered"
    /\ recvPc = "wait"
    /\ processed = <<1, 2>>
    /\ operator_connected
    /\ session_id = RelaySessionId
    /\ pin = RelayPin
    /\ outbox = <<ClientRegister, ScreenInfo(PrimaryScreen)>>

\* C19: once the supervisor has left Streaming after the transport closed, the
\* Session is gone: during Backoff and the following Connecting
\* operator_connected is false and neither session_id nor pin of the previous
\* connection is held.
C19_SessionDiscarded ==
    supState \in {"Backoff", "LoopTop", "Connecting"} =>
       /\ ~operator_connected
       /\ session_id = None
       /\ pin = None

\* n is round(a / b) for b > 0: the nearest integer, the even one on a tie.
IsRound(n, a, b) ==
    \/ 2 * Abs(n * b - a) < b
    \/ 2 * Abs(n * b - a) = b /\ n % 2 = 0

\* n is int(a / b) for b > 0: the integer part, towards zero.
IsTrunc(n, a, b) ==
    /\ Abs(n) * b <= Abs(a)
    /\ Abs(a) < (Abs(n) + 1) * b
    /\ (a >= 0 => n >= 0)
    /\ (a <= 0 => n <= 0)

\* C20 as stated: the coordinates passed to the provider are
\* (round(xRatio * screenWidth), round(yRatio * screenHeight)), rounded to the
\* nearest integer and not truncated, for ratios inside and outside [0, 1].
C20_ScaleRounds ==
    calc.fn = "scale_coords" =>
       /\ IsRound(calc.out[1], calc.x * calc.screen.width, RatioDen)
       /\ IsRound(calc.out[2], calc.y * calc.screen.height, RatioDen)

\* C20 amended: the coordinates passed to the provider are
\* (int(xRatio * screenWidth), int(yRatio * screenHeight)), the fraction being
\* dropped towards zero; ratios outside [0, 1] are scaled the same way and
\* are not clamped, so the result may lie outside the screen.
C20_ScaleTruncates ==
    calc.fn = "scale_coords" =>
       /\ IsTrunc(calc.out[1], calc.x * calc.screen.width, RatioDen)
       /\ IsTrunc(calc.out[2], calc.y * calc.screen.height, RatioDen)
       /\ calc.x > RatioDen => calc.out[1] > calc.screen.width
       /\ calc.y < 0 => calc.out[2] < 0

C20_Witness ==
    /\ calc.fn = "scale_coords"
    /\ calc.screen = [width |-> 1366, height |-> 768]
    /\ calc.x = 3
    /\ calc.y = -1
    /\ calc.out = <<409, -76>>

\* The types some branch of the receive loop names.
RecognizedTypes ==
    {"registered", "operator_connected", "operator_disconnected",
     "client_disconnected"} \cup InputTypes

\* A binary payload, or a decoded record whose type is absent or unknown.
Unhandled(m) ==
    \/ m.wire = "bytes"
    \/ m.wire = "text" /\ m.json = "object" /\ m.type \notin RecognizedTypes

\* C21: a binary payload, a record of an unrecognized type and a record with
\* no type leave everything as it was: the Session fields, the keep-running
\* flag and the connection state keep their values, no input action is
\* injected, nothing is written, and the receiver waits for the next message.
C21_UnhandledLeavesAllUnchanged ==
    [][(ProcessedOne /\ Unhandled(msg')) =>
          /\ session_id' = session_id
          /\ pin' = pin
          /\ operator_connected' = operator_connected
          /\ running' = running
          /\ connected' = connected
          /\ supState' = supState
          /\ ws' = ws
          /\ recvPc' = "wait"
          /\ recvExc' = "none"
          /\ effects' = effects
          /\ handled' = "none"
          /\ outbox' = outbox
          /\ framesWritten' = framesWritten]_vars

C21_Witness ==
    /\ msg.type = "bogus"
    /\ Len(processed) = 3
    /\ operator_connected
    /\ session_id = RelaySessionId
    /\ pin = RelayPin
    /\ recvPc = "wait"
    /\ supState = "Streaming"

\* C22: for every mouse_click and mouse_double_click message the button codes
\* 0, 1, 2 select left, middle, right, and an absent or any other integer
\* code selects left; {x: 0.5, y: 0.5, button: 0} on 1920 x 1080 issues one
\* left click at (960, 540).
C22_ButtonMap ==
    calc.fn \in {"mouse_click", "mouse_double_click"} =>
       LET b == calc.button
           calls == calc.out
       IN  /\ Len(calls) = 1
           /\ calls[1].call = IF calc.fn = "mouse_click" THEN "click" ELSE "doubleClick"
           /\ b = <<0>> => calls[1].args[3] = "left"
           /\ b = <<1>> => calls[1].args[3] = "middle"
           /\ b = <<2>> => calls[1].args[3] = "right"
           /\ b = <<>> => calls[1].args[3] = "left"
           /\ (b # <<>> /\ b[1] \notin {0, 1, 2}) => calls[1].args[3] = "left"
           /\ (/\ calc.fn = "mouse_click"
               /\ calc.screen = [width |-> 1920, height |-> 1080]
               /\ 2 * calc.x = RatioDen
               /\ 2 * calc.y = RatioDen
               /\ b = <<0>>) =>
                 calls = <<[call |-> "click", args |-> <<960, 540, "left">>]>>

C22_Witness ==
    /\ calc.fn = "mouse_double_click"
    /\ calc.screen = [width |-> 1920, height |-> 1080]
    /\ calc.button = <<2>>
    /\ calc.out = <<[call |-> "doubleClick", args |-> <<960, 540, "right">>]>>

\* The step just taken on message msg' is the one engine e takes on it from
\* the same fields.
StepOfEngine(e) ==
    \E fault \in ProviderFaults :
       LET r == Process(msg', fault, e, session_id, pin, operator_connected, running)
       IN  /\ recvPc' = r.pc
           /\ recvExc' = r.exc
           /\ session_id' = r.sid
           /\ pin' = r.pin
           /\ operator_connected' = r.op
           /\ running' = r.run
           /\ handled' = r.handled

\* C23: the console engine and the gui engine are the same state machine:
\* whatever message either of them processes (client_disconnected included),
\* the step it takes is the step the other one takes on that message from the
\* same state, so both hold the same Session values and end in the same cases.
C23_EnginesAgree ==
    [][ProcessedOne => (StepOfEngine("console") /\ StepOfEngine("gui"))]_vars

\* A decoded record of one of the six input types.
InputRecord(m) == m.wire = "text" /\ m.json = "object" /\ m.type \in InputTypes

\* C24 as stated: InputHandler.handle is never invoked for an input message
\* that is processed while operator_connected is false.
C24_InputOnlyWhilePresent ==
    [][(ProcessedOne /\ InputRecord(msg') /\ ~operator_connected) =>
          handled' = "none"]_vars

\* C24 amended: every input message the receiver processes is passed to
\* InputHandler.handle, whether or not an operator is present, and the
\* dispatch leaves operator_connected as it was.
C24_InputAlwaysDispatched ==
    [][(ProcessedOne /\ InputRecord(msg')) =>
          /\ handled' # "none"
          /\ operator_connected' = operator_connected]_vars

C24_Witness ==
    /\ handled = "injected"
    /\ msg.type = "mouse_click"
    /\ processed = <<1>>
    /\ ~operator_connected
    /\ framesWritten = 0
    /\ supState = "Streaming"

\* C25: operator_connected is true only inside a streaming session.  Outside
\* one (loop test, Connecting, Registering, Backoff, after run() returned) it
\* is false and no task of the ended session is alive to set it; it becomes
\* true only when a running session processes operator_connected; and a
\* session starts with it false and with no frame written.
C25_PresenceOnlyInSession ==
    /\ [](supState \in {"LoopTop", "Connecting", "Registering", "Backoff", "Returned"} =>
             (~operator_connected /\ ~SendAlive /\ ~RecvAlive))
    /\ [](supState = "Closing" => (~SendAlive /\ ~RecvAlive))
    /\ [][(operator_connected' /\ ~operator_connected) =>
             /\ supState = "Streaming"
             /\ ProcessedOne
             /\ msg'.type = "operator_connected"]_vars
    /\ [][(supState # "Streaming" /\ supState' = "Streaming") =>
             (~operator_connected' /\ framesWritten' = 0 /\ sendPc' = "loop")]_vars

C25_Witness ==
    /\ supState = "Backoff"
    /\ ~operator_connected
    /\ sendPc = "none"
    /\ recvPc = "none"
    /\ engine = "console"
    /\ pin = RelayPin
    /\ failures = 0
    /\ ~reported

\* C26: after operator_disconnected has been processed, at most one further
\* frame (the one whose capture or write was in progress) is written before
\* the next operator_connected is processed, in every interleaving of the two
\* tasks.
C26_OneFrameAfterDisconnect == framesAfterDisc <= 1

C26_Witness ==
    /\ framesAfterDisc = 1
    /\ msg.type = "operator_disconnected"
    /\ ~operator_connected
    /\ sendPc = "idle"
    /\ ws = "open"

====
